---- MODULE Spec2Model ----
\* Model of the Anki SM-2 scheduler of obsidian-notedeck (src/sr-algorithm.ts).
\*
\* Numbers: easeFactor and the multipliers are kept in hundredths (2.5 is 250),
\* every ease change in the code being a multiple of 0.05.  Instants are whole
\* minutes since the epoch (Date.getTime() is 60000 times the value), and a
\* calendar day added by Date.setDate is MinutesPerDay minutes.
EXTENDS Integers, Sequences, FiniteSets, TLC

\* ---------------------------------------------------------------- bounds
MaxInterval == 40      \* largest interval (days) a call may produce
MaxEase == 280         \* largest easeFactor (hundredths) a call may produce
MaxNow == 1            \* instants handed to schedule are 0..MaxNow
MaxRatings == 2        \* longest rating sequence tried when asking what a record can reach
MaxUserActions == 2    \* State edits and rating commands the user makes

\* ------------------------------------------------------- program constants
learningSteps == <<1, 10>>
graduatingInterval == 1
easyInterval == 4
startingEase == 250
minEase == 130
easyBonus == 130
hardIntervalMultiplier == 120
AgainEasePenalty == 20
HardEasePenalty == 15
EasyEaseBonus == 15
MinutesPerDay == 1440
Scale == 100

Rating == {"Again", "Hard", "Good", "Easy"}
CardState == {"New", "Learning", "Review", "Relearning"}
Ids == {"Study Notes/a.md", "Study Notes/b.md"}

\* The value of an array lookup past the end, and of a Date built from it.
Undefined == -1

Max(a, b) == IF a >= b THEN a ELSE b

\* learningSteps[i] with JavaScript's zero-based index
StepAt(i) == IF i >= 0 /\ i < Len(learningSteps) THEN learningSteps[i + 1] ELSE Undefined

\* ------------------------------------------------------------- the helpers
setNextDueMinutes(card, minutes, now) ==
    [card EXCEPT !.dueDate = IF minutes = Undefined THEN Undefined ELSE now + minutes]

\* variant: setDate(days) instead of setDate(getDate() + days)
setNextDueDays_absolute(card, days, now) ==
    [card EXCEPT !.dueDate = days * MinutesPerDay]

setNextDueDays(card, days, now) ==
    [card EXCEPT !.dueDate = now + days * MinutesPerDay]

\* variant: graduation always assigns startingEase
EaseOrDefault_always(card) == startingEase

\* card.easeFactor || startingEase
EaseOrDefault(card) == IF card.easeFactor = 0 THEN startingEase ELSE card.easeFactor

\* ----------------------------------------------------------- handleLearning
\* variant: a failed step also moves the card to Learning
handleLearningAgain_toLearning(card, now) ==
    setNextDueMinutes([card EXCEPT !.stepIndex = 0, !.state = "Learning"], StepAt(0), now)

handleLearningAgain(card, now) ==
    setNextDueMinutes([card EXCEPT !.stepIndex = 0], StepAt(0), now)

\* variant: Hard repeats the first step instead of the current one
handleLearningHard_firstStep(card, now) ==
    setNextDueMinutes(card, StepAt(0), now)

handleLearningHard(card, now) ==
    setNextDueMinutes(card, StepAt(card.stepIndex), now)

\* variant: off-by-one in the last-step test (< length instead of < length - 1)
handleLearningGood_offByOne(card, now) ==
    IF card.stepIndex < Len(learningSteps)
    THEN LET c1 == [card EXCEPT !.stepIndex = card.stepIndex + 1]
             c2 == setNextDueMinutes(c1, StepAt(c1.stepIndex), now)
         IN [c2 EXCEPT !.state = "Learning"]
    ELSE LET c1 == [card EXCEPT !.state = "Review",
                                !.interval = graduatingInterval,
                                !.easeFactor = EaseOrDefault(card)]
         IN setNextDueDays(c1, c1.interval, now)

\* variant: an advancing Good forgets to set the phase to Learning
handleLearningGood_keepState(card, now) ==
    IF card.stepIndex < Len(learningSteps) - 1
    THEN LET c1 == [card EXCEPT !.stepIndex = card.stepIndex + 1]
         IN setNextDueMinutes(c1, StepAt(c1.stepIndex), now)
    ELSE LET c1 == [card EXCEPT !.state = "Review",
                                !.interval = graduatingInterval,
                                !.easeFactor = EaseOrDefault(card)]
         IN setNextDueDays(c1, c1.interval, now)

\* variant: a card graduating by Good gets back the interval it carried, if longer
handleLearningGood_keepInterval(card, now) ==
    IF card.stepIndex < Len(learningSteps) - 1
    THEN LET c1 == [card EXCEPT !.stepIndex = card.stepIndex + 1]
             c2 == setNextDueMinutes(c1, StepAt(c1.stepIndex), now)
         IN [c2 EXCEPT !.state = "Learning"]
    ELSE LET c1 == [card EXCEPT !.state = "Review",
                                !.interval = Max(graduatingInterval, card.interval),
                                !.easeFactor = EaseOrDefault(card)]
         IN setNextDueDays(c1, c1.interval, now)

handleLearningGood(card, now) ==
    IF card.stepIndex < Len(learningSteps) - 1
    THEN LET c1 == [card EXCEPT !.stepIndex = card.stepIndex + 1]
             c2 == setNextDueMinutes(c1, StepAt(c1.stepIndex), now)
         IN [c2 EXCEPT !.state = "Learning"]
    ELSE LET c1 == [card EXCEPT !.state = "Review",
                                !.interval = graduatingInterval,
                                !.easeFactor = EaseOrDefault(card)]
         IN setNextDueDays(c1, c1.interval, now)

\* variant: Easy graduates with graduatingInterval instead of easyInterval
handleLearningEasy_graduating(card, now) ==
    LET c1 == [card EXCEPT !.state = "Review",
                           !.interval = graduatingInterval,
                           !.easeFactor = EaseOrDefault(card)]
    IN setNextDueDays(c1, c1.interval, now)

handleLearningEasy(card, now) ==
    LET c1 == [card EXCEPT !.state = "Review",
                           !.interval = easyInterval,
                           !.easeFactor = EaseOrDefault(card)]
    IN setNextDueDays(c1, c1.interval, now)

handleLearning(card, rating, now) ==
    CASE rating = "Again" -> handleLearningAgain(card, now)
      [] rating = "Hard"  -> handleLearningHard(card, now)
      [] rating = "Good"  -> handleLearningGood(card, now)
      [] rating = "Easy"  -> handleLearningEasy(card, now)
      [] OTHER -> card

\* ------------------------------------------------------------- handleReview
\* Each branch yields the card as mutated inside the switch together with the
\* locals newInterval and newEase.
\* variant: the ease decrease is not clamped at minEase
reviewAgain_noClamp(card, now) ==
    [card |-> setNextDueMinutes([card EXCEPT !.state = "Relearning", !.stepIndex = 0],
                                StepAt(0), now),
     newInterval |-> card.interval,
     newEase |-> card.easeFactor - AgainEasePenalty]

\* variant: a lapse resets the interval to 1, as the comment in the Again branch says
reviewAgain_resetInterval(card, now) ==
    [card |-> setNextDueMinutes([card EXCEPT !.state = "Relearning", !.stepIndex = 0,
                                             !.interval = 1],
                                StepAt(0), now),
     newInterval |-> 1,
     newEase |-> Max(minEase, card.easeFactor - AgainEasePenalty)]

\* variant: a lapse forgets to move the card to Relearning
reviewAgain_stayReview(card, now) ==
    [card |-> setNextDueMinutes([card EXCEPT !.stepIndex = 0], StepAt(0), now),
     newInterval |-> card.interval,
     newEase |-> Max(minEase, card.easeFactor - AgainEasePenalty)]

reviewAgain(card, now) ==
    [card |-> setNextDueMinutes([card EXCEPT !.state = "Relearning", !.stepIndex = 0],
                                StepAt(0), now),
     newInterval |-> card.interval,
     newEase |-> Max(minEase, card.easeFactor - AgainEasePenalty)]

\* variant: Hard takes a day off the stretched interval
reviewHard_minusOne(card, now) ==
    LET newInterval == ((card.interval * hardIntervalMultiplier) \div Scale) - 1
    IN [card |-> setNextDueDays(card, newInterval, now),
        newInterval |-> newInterval,
        newEase |-> Max(minEase, card.easeFactor - HardEasePenalty)]

\* variant: the Hard ease decrease is not clamped at minEase
reviewHard_noClamp(card, now) ==
    LET newInterval == (card.interval * hardIntervalMultiplier) \div Scale
    IN [card |-> setNextDueDays(card, newInterval, now),
        newInterval |-> newInterval,
        newEase |-> card.easeFactor - HardEasePenalty]

\* variant: the Hard multiplier is applied on top of the ease
reviewHard_timesEase(card, now) ==
    LET newInterval == (card.interval * card.easeFactor * hardIntervalMultiplier)
                           \div (Scale * Scale)
    IN [card |-> setNextDueDays(card, newInterval, now),
        newInterval |-> newInterval,
        newEase |-> Max(minEase, card.easeFactor - HardEasePenalty)]

\* variant: Hard divides the interval by the multiplier instead of multiplying
reviewHard_divides(card, now) ==
    LET newInterval == (card.interval * Scale) \div hardIntervalMultiplier
    IN [card |-> setNextDueDays(card, newInterval, now),
        newInterval |-> newInterval,
        newEase |-> Max(minEase, card.easeFactor - HardEasePenalty)]

reviewHard(card, now) ==
    LET newInterval == (card.interval * hardIntervalMultiplier) \div Scale
    IN [card |-> setNextDueDays(card, newInterval, now),
        newInterval |-> newInterval,
        newEase |-> Max(minEase, card.easeFactor - HardEasePenalty)]

\* variant: Math.round instead of Math.floor
reviewGood_round(card, now) ==
    LET newInterval == (card.interval * card.easeFactor + Scale \div 2) \div Scale
    IN [card |-> setNextDueDays(card, newInterval, now),
        newInterval |-> newInterval,
        newEase |-> card.easeFactor]

reviewGood(card, now) ==
    LET newInterval == (card.interval * card.easeFactor) \div Scale
    IN [card |-> setNextDueDays(card, newInterval, now),
        newInterval |-> newInterval,
        newEase |-> card.easeFactor]

\* variant: the ease is increased before the interval is computed
reviewEasy_easeFirst(card, now) ==
    LET newEase == card.easeFactor + EasyEaseBonus
        newInterval == (card.interval * newEase * easyBonus) \div (Scale * Scale)
    IN [card |-> setNextDueDays(card, newInterval, now),
        newInterval |-> newInterval,
        newEase |-> newEase]

reviewEasy(card, now) ==
    LET newInterval == (card.interval * card.easeFactor * easyBonus) \div (Scale * Scale)
    IN [card |-> setNextDueDays(card, newInterval, now),
        newInterval |-> newInterval,
        newEase |-> card.easeFactor + EasyEaseBonus]

\* "Apply changes": ease always, interval only while the card is still in Review
applyChanges(r) ==
    LET c1 == [r.card EXCEPT !.easeFactor = r.newEase]
    IN IF c1.state = "Review" THEN [c1 EXCEPT !.interval = r.newInterval] ELSE c1

handleReview(card, rating, now) ==
    CASE rating = "Again" -> applyChanges(reviewAgain(card, now))
      [] rating = "Hard"  -> applyChanges(reviewHard(card, now))
      [] rating = "Good"  -> applyChanges(reviewGood(card, now))
      [] rating = "Easy"  -> applyChanges(reviewEasy(card, now))
      [] OTHER -> applyChanges([card |-> card, newInterval |-> card.interval,
                                newEase |-> card.easeFactor])

\* ----------------------------------------------------------------- schedule
\* const newCard = { ...card }: a fresh object holding the same field values
Spread(card) == [f \in DOMAIN card |-> card[f]]

\* variant: New and Learning cards walk the ladder with their ease reset
dispatch_resetEase(newCard, rating, now) ==
    IF newCard.state = "New" \/ newCard.state = "Learning"
    THEN handleLearning([newCard EXCEPT !.easeFactor = startingEase], rating, now)
    ELSE IF newCard.state = "Review"
    THEN handleReview(newCard, rating, now)
    ELSE IF newCard.state = "Relearning"
    THEN handleLearning(newCard, rating, now)
    ELSE newCard

\* variant: a state that is none of the four is treated as Review
dispatch_defaultReview(newCard, rating, now) ==
    IF newCard.state = "New" \/ newCard.state = "Learning"
    THEN handleLearning(newCard, rating, now)
    ELSE IF newCard.state = "Relearning"
    THEN handleLearning(newCard, rating, now)
    ELSE handleReview(newCard, rating, now)

dispatch(newCard, rating, now) ==
    IF newCard.state = "New" \/ newCard.state = "Learning"
    THEN handleLearning(newCard, rating, now)
    ELSE IF newCard.state = "Review"
    THEN handleReview(newCard, rating, now)
    ELSE IF newCard.state = "Relearning"
    THEN handleLearning(newCard, rating, now)
    ELSE newCard

\* The two objects alive when schedule returns: the caller's argument object
\* (card) and the returned one (newCard).  The handlers write to newCard only.
\* variant: no clone, the handlers write to the caller's object
schedule_alias(card, rating, now) ==
    LET out == dispatch(card, rating, now)
    IN [card |-> out, newCard |-> out]

schedule(card, rating, now) ==
    [card |-> card, newCard |-> dispatch(Spread(card), rating, now)]

\* ------------------------------------------------------------------ strings
\* A JavaScript string is the sequence of its characters.
UpperCase == <<"A", "B", "C", "D", "E", "F", "G", "H", "I", "J", "K", "L", "M", "N", "O", "P", "Q", "R", "S", "T", "U", "V", "W", "X", "Y", "Z">>
LowerCase == <<"a", "b", "c", "d", "e", "f", "g", "h", "i", "j", "k", "l", "m", "n", "o", "p", "q", "r", "s", "t", "u", "v", "w", "x", "y", "z">>

LowerChar(c) ==
    IF \E i \in 1..Len(UpperCase) : UpperCase[i] = c
    THEN LowerCase[CHOOSE i \in 1..Len(UpperCase) : UpperCase[i] = c]
    ELSE c

\* String.prototype.toLowerCase
ToLowerCase(str) == [i \in 1..Len(str) |-> LowerChar(str[i])]

\* String.prototype.startsWith
StartsWith(str, prefix) ==
    /\ Len(str) >= Len(prefix)
    /\ SubSeq(str, 1, Len(prefix)) = prefix

\* ------------------------------------------------------- the vault (main.ts)
\* DEFAULT_SETTINGS.targetFolder
targetFolder == <<"S", "t", "u", "d", "y", " ", "N", "o", "t", "e", "s">>

\* The markdown files of the vault, in the order getMarkdownFiles lists them
MarkdownFiles ==
    <<"Study Notes/b.md", "Inbox/a.md", "Study Notes2/a.md", "Study Notes/a.md">>
Files == {MarkdownFiles[i] : i \in 1..Len(MarkdownFiles)}

\* file.path, character by character
PathChars(f) ==
    CASE f = "Study Notes/a.md"  -> <<"S", "t", "u", "d", "y", " ", "N", "o", "t", "e", "s", "/", "a", ".", "m", "d">>
      [] f = "Study Notes/b.md"  -> <<"S", "t", "u", "d", "y", " ", "N", "o", "t", "e", "s", "/", "b", ".", "m", "d">>
      [] f = "Study Notes2/a.md" -> <<"S", "t", "u", "d", "y", " ", "N", "o", "t", "e", "s", "2", "/", "a", ".", "m", "d">>
      [] f = "Inbox/a.md"        -> <<"I", "n", "b", "o", "x", "/", "a", ".", "m", "d">>

\* The spelling of a phase name
PhaseChars(st) ==
    CASE st = "New"        -> <<"N", "e", "w">>
      [] st = "Learning"   -> <<"L", "e", "a", "r", "n", "i", "n", "g">>
      [] st = "Review"     -> <<"R", "e", "v", "i", "e", "w">>
      [] st = "Relearning" -> <<"R", "e", "l", "e", "a", "r", "n", "i", "n", "g">>

\* A frontmatter key that is not there
NoValue == -2

\* The frontmatter value of State: missing, a string (v holds it) or a list of
\* strings (v holds its elements)
AbsentState == [kind |-> "absent", v |-> <<>>]
Str(chars) == [kind |-> "str", v |-> <<chars>>]
List(elems) == [kind |-> "list", v |-> elems]

\* !fm.State: a missing key and the empty string are falsy, every array is truthy
Falsy(st) == st.kind = "absent" \/ (st.kind = "str" /\ st.v[1] = <<>>)

\* A file without frontmatter
NoFrontmatter ==
    [present |-> FALSE, State |-> AbsentState, hidden |-> "Absent",
     interval |-> NoValue, ease |-> NoValue, step |-> NoValue, due |-> NoValue]

EmptyVault == [f \in Files |-> NoFrontmatter]

\* ------------------------------------------------ the plugin (main.ts)
\* String(fm.State) or String(fm.State[0]), lower-cased; "" for a list whose
\* first element is missing or empty
stateValue(st) ==
    IF st.kind = "list"
    THEN IF Len(st.v) >= 1 /\ st.v[1] # <<>> THEN ToLowerCase(st.v[1]) ELSE <<>>
    ELSE ToLowerCase(st.v[1])

\* The rating a lower-cased State value stands for, "None" for any other value
ratingOf(sv) ==
    IF sv = <<"a", "g", "a", "i", "n">> \/ sv = <<"f", "a", "i", "l">> THEN "Again"
    ELSE IF sv = <<"h", "a", "r", "d">> THEN "Hard"
    ELSE IF sv = <<"g", "o", "o", "d">> \/ sv = <<"m", "e", "d", "i", "u", "m">> THEN "Good"
    ELSE IF sv = <<"e", "a", "s", "y">> THEN "Easy"
    ELSE "None"

\* handleMetadataChange up to its await: the rating it hands to processReview,
\* "None" when it returns without a review
handleMetadataChange(f, vlt) ==
    IF ~StartsWith(PathChars(f), targetFolder) THEN "None"
    ELSE IF ~vlt[f].present \/ Falsy(vlt[f].State) THEN "None"
    ELSE ratingOf(stateValue(vlt[f].State))

\* The metadata cache fires 'changed' for f: the handler runs against the
\* cache vlt and a review it asks for waits for processFrontMatter.
OnChanged(f, origin, vlt, plg) ==
    LET r == handleMetadataChange(f, vlt)
    IN [plg EXCEPT !.tasks = IF r = "None" THEN @ ELSE Append(@, [file |-> f, rating |-> r]),
                   !.lastChange = [file |-> f, origin |-> origin, rating |-> r,
                                   state |-> vlt[f].State]]

isValidState(st) == st \in {"New", "Learning", "Review", "Relearning"}

\* x || d for a frontmatter number
OrElse(x, d) == IF x = NoValue \/ x = 0 THEN d ELSE x

\* The card processReview builds from the frontmatter, before its repair
LoadCard(f, fm, clock) ==
    [id |-> f,
     state |-> IF isValidState(fm.hidden) THEN fm.hidden ELSE "Review",
     interval |-> OrElse(fm.interval, 0),
     easeFactor |-> OrElse(fm.ease, startingEase),
     stepIndex |-> OrElse(fm.step, 0),
     dueDate |-> IF fm.due = NoValue THEN clock ELSE fm.due]

\* variant: the scheduled state goes to anki_hidden_state only, State is left alone
WriteBack_keepState(fm, nextCard) ==
    [present |-> TRUE, State |-> fm.State, hidden |-> nextCard.state,
     interval |-> nextCard.interval, ease |-> nextCard.easeFactor,
     step |-> nextCard.stepIndex, due |-> nextCard.dueDate]

\* The frontmatter processReview leaves behind
WriteBack(fm, nextCard) ==
    [present |-> TRUE, State |-> Str(PhaseChars(nextCard.state)), hidden |-> nextCard.state,
     interval |-> nextCard.interval, ease |-> nextCard.easeFactor,
     step |-> nextCard.stepIndex, due |-> nextCard.dueDate]

\* startReviewSession acts on a file with frontmatter whose State is 'New' or falsy
SessionStarts(fm) == fm.present /\ (fm.State = Str(<<"N", "e", "w">>) \/ Falsy(fm.State))

\* The frontmatter startReviewSession leaves behind
SessionFrontmatter(fm, clock) ==
    [fm EXCEPT !.State = Str(<<"L", "e", "a", "r", "n", "i", "n", "g">>), !.hidden = "Learning",
               !.due = IF @ = NoValue THEN clock ELSE @,
               !.interval = 0, !.step = 0]

\* The frontmatter initFile gives a created note
FreshFrontmatter ==
    [present |-> TRUE, State |-> Str(<<"N", "e", "w">>), hidden |-> "New",
     interval |-> NoValue, ease |-> NoValue, step |-> NoValue, due |-> 0]

IdlePlugin ==
    [tasks |-> <<>>, edits |-> 0, requested |-> 0, calls |-> 0,
     lastChange |-> [file |-> "Inbox/a.md", origin |-> "none", rating |-> "None",
                     state |-> AbsentState]]

\* ------------------------------------------------ the review view (View.tsx)
ClosedView ==
    [selectedDate |-> NoValue, currentQueue |-> <<>>, items |-> <<>>, now |-> 0,
     rendered |-> FALSE]

\* The local calendar day of an instant (the YYYY-MM-DD it formats to), and
\* moment().endOf('day')
DayOf(t) == t \div MinutesPerDay
EndOfDay(t) == (DayOf(t) + 1) * MinutesPerDay - 1

\* new Date(fm.anki_due): Undefined stands for an Invalid Date, which compares
\* false with everything and formats to no day
DueOf(vlt, f) == vlt[f].due

\* renderList, 1. FILTERING: the test a file passes to be pushed to dueFiles
Listed(vlt, f, selectedDate, n) ==
    /\ StartsWith(PathChars(f), targetFolder)
    /\ vlt[f].present
    /\ vlt[f].due # NoValue
    /\ IF selectedDate # NoValue
       THEN DueOf(vlt, f) # Undefined /\ DayOf(DueOf(vlt, f)) = selectedDate
       ELSE DueOf(vlt, f) # Undefined /\ DueOf(vlt, f) <= EndOfDay(n)

FilterFiles(vlt, selectedDate, n) ==
    LET Keep(f) == Listed(vlt, f, selectedDate, n)
    IN SelectSeq(MarkdownFiles, Keep)

\* variant: the comparator is bD - aD
InsertByDue_descending(sorted, f, vlt) ==
    LET k == Cardinality({i \in 1..Len(sorted) : DueOf(vlt, sorted[i]) >= DueOf(vlt, f)})
    IN SubSeq(sorted, 1, k) \o <<f>> \o SubSeq(sorted, k + 1, Len(sorted))

\* renderList, 2. SORTING: Array.prototype.sort is stable, so a file goes
\* behind every file already placed that is due no later
InsertByDue(sorted, f, vlt) ==
    LET k == Cardinality({i \in 1..Len(sorted) : DueOf(vlt, sorted[i]) <= DueOf(vlt, f)})
    IN SubSeq(sorted, 1, k) \o <<f>> \o SubSeq(sorted, k + 1, Len(sorted))

RECURSIVE SortByDue(_, _)
SortByDue(files, vlt) ==
    IF files = <<>> THEN <<>>
    ELSE InsertByDue(SortByDue(SubSeq(files, 1, Len(files) - 1), vlt), files[Len(files)], vlt)

\* renderList, STACK LOGIC: the i-th list item, with the branch that decided it
StackItem(dueFiles, i, vlt, selectedDate, n) ==
    LET readyCount == Cardinality({j \in 1..Len(dueFiles) : DueOf(vlt, dueFiles[j]) <= n})
        isFuturePreview == selectedDate # NoValue /\ selectedDate # DayOf(n)
        isStrictlyDue == DueOf(vlt, dueFiles[i]) <= n
        branch == IF isFuturePreview THEN "preview"
                  ELSE IF i = 1
                       THEN IF isStrictlyDue THEN "top-due"
                            ELSE IF readyCount = 0 THEN "top-unlocked" ELSE "top-blocked"
                       ELSE "below"
    IN [file |-> dueFiles[i],
        isDisabled |-> branch \in {"preview", "top-blocked", "below"},
        showTimer |-> branch \in {"preview", "top-blocked", "below"},
        branch |-> branch]

\* renderList: the queue and the list it leaves in the view
renderList(vw, vlt, n) ==
    LET dueFiles == SortByDue(FilterFiles(vlt, vw.selectedDate, n), vlt)
    IN [vw EXCEPT !.currentQueue = dueFiles,
                  !.items = [i \in 1..Len(dueFiles) |->
                                 StackItem(dueFiles, i, vlt, vw.selectedDate, n)],
                  !.now = n,
                  !.rendered = TRUE]

\* -------------------------------------------------------------------- state
VARIABLES
    card,     \* the item's current record (the last record returned)
    arg,      \* the object passed to the last schedule call, as it is after the call
    old,      \* the field values that object had when the call was made
    rating,   \* the rating of the last call, "None" before the first
    now,      \* the instant of the last call
    twin,     \* a second record, rated in step with card, that started out
              \* equal to it except (in an acquisition-like phase) in its interval
    vault,    \* the frontmatter of every markdown file, as the metadata cache holds it
    plugin,   \* the plugin: reviews awaiting processFrontMatter, and its history
    view      \* the review view: selectedDate, currentQueue and the rendered list

vars == <<card, arg, old, rating, now, twin, vault, plugin, view>>

\* The records that equal c in every field but, when c is in an
\* acquisition-like phase, possibly the interval
OtherIntervals == {25}
TwinsOf(c) ==
    IF c.state \in {"New", "Learning", "Relearning"}
    THEN {[c EXCEPT !.interval = j] : j \in {c.interval} \cup OtherIntervals}
    ELSE {c}

Nows == 0..MaxNow

\* A record as the collaborator creates it (main.ts initFile / processReview defaults)
NewCard(id, due) ==
    [id |-> id, state |-> "New", interval |-> 0, easeFactor |-> startingEase,
     stepIndex |-> 0, dueDate |-> due]

Init ==
    /\ \E id \in Ids : card = NewCard(id, 0)
    /\ arg = card
    /\ old = card
    /\ rating = "None"
    /\ now = 0
    /\ twin \in TwinsOf(card)
    /\ vault = EmptyVault
    /\ plugin = IdlePlugin
    /\ view = ClosedView

\* A record satisfying the data-model invariants, in any phase
AnyEase == {130, 135, 145, 230, 250, 265}
AnyInterval == {0, 1, 2, 4, 10}
AnyDue == {0, 1, 1441}
ValidCards ==
    [id : Ids, state : CardState, interval : AnyInterval, easeFactor : AnyEase,
     stepIndex : 0..(Len(learningSteps) - 1), dueDate : AnyDue]

InitAny ==
    /\ card \in ValidCards
    /\ arg = card
    /\ old = card
    /\ rating = "None"
    /\ now = 0
    /\ twin \in TwinsOf(card)
    /\ vault = EmptyVault
    /\ plugin = IdlePlugin
    /\ view = ClosedView

\* A record as a caller may hand it to schedule, which validates nothing: the
\* state may be none of the four phases and the ease may be unset (0)
UnvalidatedCards ==
    [id : Ids, state : CardState \cup {"Suspended"}, interval : {0, 1, 10},
     easeFactor : {0, 130, 250}, stepIndex : 0..(Len(learningSteps) - 1),
     dueDate : {0, 1441}]

InitUnvalidated ==
    /\ card \in UnvalidatedCards
    /\ arg = card
    /\ old = card
    /\ rating = "None"
    /\ now = 0
    /\ twin \in TwinsOf(card)
    /\ vault = EmptyVault
    /\ plugin = IdlePlugin
    /\ view = ClosedView

\* processReview's repair of a loaded record: a Review card with interval 0
\* and stepIndex 0 is taken for a New one
ReclassifyLoaded(c) ==
    IF c.interval = 0 /\ c.stepIndex = 0 /\ c.state = "Review"
    THEN [c EXCEPT !.state = "New"]
    ELSE c

Schedule(r, n) ==
    LET res == schedule(card, r, n)
    IN /\ res.newCard.interval <= MaxInterval
       /\ res.newCard.easeFactor <= MaxEase
       /\ card' = res.newCard
       /\ arg' = res.card
       /\ old' = card
       /\ rating' = r
       /\ now' = n
       /\ twin' = schedule(twin, r, n).newCard
       /\ UNCHANGED <<vault, plugin, view>>

Next == \E r \in Rating, n \in Nows : Schedule(r, n)

Spec == Init /\ [][Next]_vars
SpecAny == InitAny /\ [][Next]_vars

SpecUnvalidated == InitUnvalidated /\ [][Next]_vars

\* ------------------------------------------------------- the plugin's steps
\* What the user may type as the State of a note
WordGood == Str(<<"G", "o", "o", "d">>)
WordMedium == Str(<<"M", "E", "D", "I", "U", "M">>)
WordAgain == Str(<<"a", "g", "a", "i", "n">>)
WordFail == Str(<<"F", "a", "i", "l">>)
WordHard == Str(<<"H", "a", "r", "d">>)
WordEasy == Str(<<"e", "a", "s", "y">>)
WordDone == Str(<<"d", "o", "n", "e">>)
ListEmptyThenEasy == List(<<<<>>, <<"e", "a", "s", "y">>>>)
ListEasyThenX == List(<<<<"E", "a", "s", "y">>, <<"x">>>>)
StateWords ==
    {WordGood, WordMedium, WordAgain, WordFail, WordHard, WordEasy, WordDone,
     AbsentState, ListEmptyThenEasy, ListEasyThenX}

\* The notes the user works on; the vault starts with every note but possibly
\* Study Notes/a.md initialised by initFile
UserFiles == {"Study Notes/a.md", "Study Notes2/a.md", "Inbox/a.md"}
FreshVault == [f \in Files |-> FreshFrontmatter]

InitPlugin ==
    /\ card = NewCard("Study Notes/a.md", 0)
    /\ arg = card
    /\ old = card
    /\ rating = "None"
    /\ now = 0
    /\ twin = card
    /\ vault \in {FreshVault, [FreshVault EXCEPT !["Study Notes/a.md"] = NoFrontmatter]}
    /\ plugin = IdlePlugin
    /\ view = ClosedView

\* The user sets the State of a note; the cache changes and the handler runs
UserEditsState(f, st) ==
    /\ plugin.edits < MaxUserActions
    /\ vault' = [vault EXCEPT ![f] = [@ EXCEPT !.present = TRUE, !.State = st]]
    /\ LET p1 == OnChanged(f, "user", vault', plugin)
       IN plugin' = [p1 EXCEPT !.edits = @ + 1,
                               !.requested = IF p1.lastChange.rating = "None" THEN @ ELSE @ + 1]
    /\ UNCHANGED <<card, arg, old, rating, now, twin, view>>

\* A "Rate: ..." command on the active note
RateActiveNote(f, r) ==
    /\ plugin.edits < MaxUserActions
    /\ plugin' = [plugin EXCEPT !.tasks = Append(@, [file |-> f, rating |-> r]),
                                !.edits = @ + 1,
                                !.requested = @ + 1]
    /\ UNCHANGED <<card, arg, old, rating, now, twin, vault, view>>

\* processFrontMatter runs the callback of a waiting processReview: the card is
\* loaded, repaired, scheduled and written back, and the write changes the cache
ProcessReview(i, n) ==
    /\ i \in 1..Len(plugin.tasks)
    /\ LET t == plugin.tasks[i]
           fm == vault[t.file]
           loaded == ReclassifyLoaded(LoadCard(t.file, fm, n))
           res == schedule(loaded, t.rating, n)
           rest == SubSeq(plugin.tasks, 1, i - 1) \o SubSeq(plugin.tasks, i + 1, Len(plugin.tasks))
       IN /\ plugin.calls < 2 * MaxUserActions
          /\ vault' = [vault EXCEPT ![t.file] = WriteBack(fm, res.newCard)]
          /\ plugin' = OnChanged(t.file, "writeback", vault',
                                 [plugin EXCEPT !.tasks = rest, !.calls = @ + 1])
          /\ card' = res.newCard
          /\ arg' = res.card
          /\ old' = loaded
          /\ rating' = t.rating
          /\ now' = n
          /\ twin' = res.newCard
          /\ view' = IF view.rendered THEN renderList(view, vault', n) ELSE view   \* if (this.view) refreshUI

\* The view opens a queued note for review
StartReviewSession(f) ==
    /\ StartsWith(PathChars(f), targetFolder)
    /\ vault[f].due # NoValue
    /\ SessionStarts(vault[f])
    /\ vault' = [vault EXCEPT ![f] = SessionFrontmatter(@, now)]   \* its due date is set, the clock is not read
    /\ plugin' = OnChanged(f, "session", vault', plugin)
    /\ view' = IF view.rendered THEN renderList(view, vault', view.now) ELSE view   \* if (this.view) refreshListOnly
    /\ UNCHANGED <<card, arg, old, rating, now, twin>>

NextPlugin ==
    \/ \E f \in UserFiles, st \in StateWords : UserEditsState(f, st)
    \/ \E f \in {"Study Notes/a.md", "Inbox/a.md"}, r \in Rating : RateActiveNote(f, r)
    \/ \E i \in 1..MaxUserActions, n \in Nows : ProcessReview(i, n)
    \/ \E f \in UserFiles : StartReviewSession(f)

SpecPlugin == InitPlugin /\ [][NextPlugin]_vars

\* -------------------------------------------------------- the view's steps
\* The due dates a note may carry, the instants at which the list is drawn
\* and the calendar cells the user may click
DueChoices == {NoValue, Undefined, 0, 1, 2, MinutesPerDay + 1}
ViewNows == Nows \cup {MinutesPerDay + n : n \in Nows}
CalendarDays == 0..2

InitView ==
    /\ card = NewCard("Study Notes/a.md", 0)
    /\ arg = card
    /\ old = card
    /\ rating = "None"
    /\ now = 0
    /\ twin = card
    /\ \E da, db, ds \in DueChoices, inbox \in {NoFrontmatter, FreshFrontmatter} :
          vault = [f \in Files |->
                      CASE f = "Study Notes/a.md"  -> [FreshFrontmatter EXCEPT !.due = da]
                        [] f = "Study Notes/b.md"  -> [FreshFrontmatter EXCEPT !.due = db]
                        [] f = "Study Notes2/a.md" -> [FreshFrontmatter EXCEPT !.due = ds]
                        [] OTHER -> inbox]
    /\ plugin = IdlePlugin
    /\ view = ClosedView

\* The view is opened or its Refresh button is pressed: the filter is cleared
\* and the whole view drawn again
RefreshUI(n) ==
    /\ view' = renderList([view EXCEPT !.selectedDate = NoValue], vault, n)
    /\ UNCHANGED <<card, arg, old, rating, now, twin, vault, plugin>>

\* A calendar cell is clicked: the day is selected and the list drawn again
ClickDay(d, n) ==
    /\ view.rendered
    /\ view' = renderList([view EXCEPT !.selectedDate = d], vault, n)
    /\ UNCHANGED <<card, arg, old, rating, now, twin, vault, plugin>>

\* "Clear Filter", shown while a day is selected
ClearFilter(n) ==
    /\ view.rendered
    /\ view.selectedDate # NoValue
    /\ view' = renderList([view EXCEPT !.selectedDate = NoValue], vault, n)
    /\ UNCHANGED <<card, arg, old, rating, now, twin, vault, plugin>>

\* refreshListOnly, as the plugin calls it after a session starts
RefreshListOnly(n) ==
    /\ view.rendered
    /\ view' = renderList(view, vault, n)
    /\ UNCHANGED <<card, arg, old, rating, now, twin, vault, plugin>>

NextView ==
    \/ \E n \in ViewNows : RefreshUI(n)
    \/ \E d \in CalendarDays, n \in ViewNows : ClickDay(d, n)
    \/ \E n \in ViewNows : ClearFilter(n)
    \/ \E n \in ViewNows : RefreshListOnly(n)

SpecView == InitView /\ [][NextView]_vars

TypeOK ==
    /\ card.state \in CardState
    /\ rating \in Rating \cup {"None"}
    /\ now \in Nows
\* ------------------------------------------------------------------ claims
Called == rating # "None"
Acquisition(s) == s \in {"New", "Learning", "Relearning"}
LastStep == Len(learningSteps) - 1

\* C1: from a new record, after any sequence of schedule calls with any
\* ratings, the record's easeFactor is at least minEase.
C1_EaseAtLeastMin == card.easeFactor >= minEase

\* a lapse whose 0.20 decrease would fall below minEase was clamped
C1_Witness ==
    /\ rating = "Again"
    /\ old.state = "Review"
    /\ old.easeFactor - AgainEasePenalty < minEase
    /\ card.easeFactor = minEase

\* C2: for a valid record in any phase, any rating and any instant now, the
\* returned record's dueDate is not before now.
C2_DueNotBeforeNow == Called => card.dueDate >= now

\* a Review card of interval 0 rated at a later instant than its old due date:
\* the offset is zero and the due date is exactly now
C2_Witness ==
    /\ Called
    /\ old.state = "Review"
    /\ old.dueDate < now
    /\ card.dueDate = now

\* C3: from a new record, while the record is in New, Learning or Relearning
\* its stepIndex is a valid index of learningSteps, and no due date was
\* computed from a lookup past the end of learningSteps.
C3_StepIndexInBounds ==
    /\ Acquisition(card.state) => card.stepIndex \in 0..LastStep
    /\ card.dueDate # Undefined

\* Good moved the card to the last step of the ladder
C3_Witness ==
    /\ rating = "Good"
    /\ Acquisition(old.state)
    /\ card.state = "Learning"
    /\ card.stepIndex = LastStep

\* C4: a record with interval >= 0 is given an interval >= 0 by schedule, in
\* every phase and for every rating, and so after any sequence of calls.
C4_IntervalNonNegative == (Called /\ old.interval >= 0) => card.interval >= 0

\* a Review card whose stretched interval floors to zero
C4_Witness ==
    /\ rating = "Hard"
    /\ old.state = "Review"
    /\ old.interval = 0
    /\ card.interval = 0

\* C5: after schedule returns, the object it was given holds the field
\* values it held before the call, and the returned record has the same id.
C5_InputUnmodified == Called => (arg = old /\ card.id = old.id)

\* a call that returned a record differing from its input in phase and due date
C5_Witness ==
    /\ Called
    /\ card.state # old.state
    /\ card.dueDate # old.dueDate
    /\ card.easeFactor # old.easeFactor

\* C6: Good in an acquisition-like phase either advances one step (phase
\* Learning, due in learningSteps[new stepIndex] minutes) or, on the last
\* step, graduates (phase Review, interval graduatingInterval, due in
\* graduatingInterval days).
C6_LearningGood ==
    (rating = "Good" /\ Acquisition(old.state)) =>
        IF old.stepIndex # LastStep
        THEN /\ card.stepIndex = old.stepIndex + 1
             /\ card.state = "Learning"
             /\ card.dueDate = now + learningSteps[card.stepIndex + 1]
        ELSE /\ card.state = "Review"
             /\ card.interval = graduatingInterval
             /\ card.dueDate = now + graduatingInterval * MinutesPerDay

\* a relapsed card on the first step advanced and became Learning
C6_Witness ==
    /\ rating = "Good"
    /\ old.state = "Relearning"
    /\ old.stepIndex = 0
    /\ card.state = "Learning"
    /\ card.stepIndex = 1

\* C7: Easy in an acquisition-like phase graduates at once whatever the
\* stepIndex: phase Review, interval easyInterval, due in easyInterval days.
C7_LearningEasy ==
    (rating = "Easy" /\ Acquisition(old.state)) =>
        /\ card.state = "Review"
        /\ card.interval = easyInterval
        /\ card.dueDate = now + easyInterval * MinutesPerDay

\* a card on the first step (not the last) graduated by Easy
C7_Witness ==
    /\ rating = "Easy"
    /\ old.state = "New"
    /\ old.stepIndex = 0
    /\ old.stepIndex # LastStep
    /\ card.state = "Review"

\* C8: Again in an acquisition-like phase resets stepIndex to 0, makes the
\* card due in learningSteps[0] minutes and keeps the phase.
C8_LearningAgain ==
    (rating = "Again" /\ Acquisition(old.state)) =>
        /\ card.stepIndex = 0
        /\ card.dueDate = now + learningSteps[1]
        /\ card.state = old.state

\* a relapsed card on the second step failed again and stayed Relearning
C8_Witness ==
    /\ rating = "Again"
    /\ old.state = "Relearning"
    /\ old.stepIndex = 1
    /\ card.state = "Relearning"
    /\ card.stepIndex = 0

\* C9: Hard in an acquisition-like phase keeps stepIndex and phase and makes
\* the card due in learningSteps[stepIndex] minutes.
C9_LearningHard ==
    (rating = "Hard" /\ Acquisition(old.state)) =>
        /\ card.stepIndex = old.stepIndex
        /\ card.state = old.state
        /\ card.dueDate = now + learningSteps[old.stepIndex + 1]

\* Hard on the second step repeated the second step
C9_Witness ==
    /\ rating = "Hard"
    /\ old.state = "Learning"
    /\ old.stepIndex = 1
    /\ card.dueDate = now + 10

C11_ReviewHard ==
    (rating = "Hard" /\ old.state = "Review") =>
        /\ card.interval = (old.interval * 120) \div 100
        /\ card.easeFactor = (IF old.easeFactor - 15 < minEase THEN minEase
                              ELSE old.easeFactor - 15)
        /\ card.state = "Review"
        /\ card.dueDate = now + card.interval * MinutesPerDay

\* Scenario E: interval 10 and ease 1.35 give interval 12 and the clamped ease 1.3
C11_Witness ==
    /\ rating = "Hard"
    /\ old.state = "Review"
    /\ old.interval = 10
    /\ old.easeFactor = 135
    /\ card.interval = 12
    /\ card.easeFactor = 130

\* C12: Good in Review sets interval to floor(interval * easeFactor), keeps
\* easeFactor, phase and stepIndex, and makes the card due in the new
\* interval, in days.
C12_ReviewGood ==
    (rating = "Good" /\ old.state = "Review") =>
        /\ card.interval = (old.interval * old.easeFactor) \div 100
        /\ card.easeFactor = old.easeFactor
        /\ card.state = "Review"
        /\ card.stepIndex = old.stepIndex
        /\ card.dueDate = now + card.interval * MinutesPerDay

\* interval 10 and ease 2.65: the product 26.5 is floored to 26
C12_Witness ==
    /\ rating = "Good"
    /\ old.state = "Review"
    /\ old.interval = 10
    /\ old.easeFactor = 265
    /\ card.interval = 26

\* C13: Easy in Review sets interval to floor(interval * easeFactor * 1.3)
\* with the ease before the increase, then raises easeFactor by 0.15 without
\* a cap, keeps the phase Review and makes the card due in the new interval,
\* in days.
C13_ReviewEasy ==
    (rating = "Easy" /\ old.state = "Review") =>
        /\ card.interval = (old.interval * old.easeFactor * 130) \div 10000
        /\ card.easeFactor = old.easeFactor + 15
        /\ card.state = "Review"
        /\ card.dueDate = now + card.interval * MinutesPerDay

\* Scenario C: interval 10 and ease 2.5 give interval 32 and ease 2.65
C13_Witness ==
    /\ rating = "Easy"
    /\ old.state = "Review"
    /\ old.interval = 10
    /\ old.easeFactor = 250
    /\ card.interval = 32
    /\ card.easeFactor = 265
    /\ card.easeFactor > startingEase
C15_NoErrorOutcome ==
    Called =>
        IF old.state \in CardState
        THEN /\ card = (IF Acquisition(old.state)
                        THEN handleLearning(old, rating, now)
                        ELSE handleReview(old, rating, now))
             /\ card.state \in CardState
             /\ card.dueDate # Undefined
             /\ card.dueDate >= now
        ELSE card = old

\* a record in an unknown state, overdue at the call, came back untouched
C15_Witness ==
    /\ Called
    /\ old.state \notin CardState
    /\ old.dueDate < now
    /\ card = old

\* The record c can be brought into one of the phases S by between one and k
\* further schedule calls.
RECURSIVE CanReachPhase(_, _, _)
CanReachPhase(c, S, k) ==
    /\ k > 0
    /\ \E r \in Rating, n \in Nows :
          LET c1 == schedule(c, r, n).newCard
          IN c1.state \in S \/ CanReachPhase(c1, S, k - 1)

\* C16: no record reachable from a new record is terminal: some rating
\* sequence brings it to Review and some rating sequence brings it to
\* Learning or Relearning.
C16_NoTerminalState ==
    /\ CanReachPhase(card, {"Review"}, MaxRatings)
    /\ CanReachPhase(card, {"Learning", "Relearning"}, MaxRatings)

\* a card that lapsed earlier (its ease was lowered) graduates again
C16_Witness ==
    /\ rating \in {"Good", "Easy"}
    /\ Acquisition(old.state)
    /\ card.state = "Review"
    /\ card.easeFactor < startingEase

\* C17: on the ladder a set easeFactor is never altered; Again, Hard and a
\* Good that does not graduate also keep the interval; an unset (zero)
\* easeFactor becomes startingEase exactly when the card graduates.
C17_LadderKeepsEase ==
    (Called /\ Acquisition(old.state)) =>
        /\ old.easeFactor # 0 => card.easeFactor = old.easeFactor
        /\ (rating \in {"Again", "Hard"} \/ (rating = "Good" /\ old.stepIndex < LastStep))
               => card.interval = old.interval
        /\ old.easeFactor = 0 =>
               card.easeFactor = (IF card.state = "Review" THEN startingEase ELSE 0)

\* a relapsed card with ease 1.3 graduates by Easy and still has ease 1.3
C17_Witness ==
    /\ rating = "Easy"
    /\ old.state = "Relearning"
    /\ old.easeFactor = minEase
    /\ card.state = "Review"
    /\ card.easeFactor = minEase
\* C18: for every record reachable from a new record and every instant, the
\* due date schedule would assign does not decrease along Again, Hard, Good,
\* Easy.
C18_DueMonotoneInRating ==
    \A n \in Nows :
        LET due(r) == schedule(card, r, n).newCard.dueDate
        IN /\ due("Again") <= due("Hard")
           /\ due("Hard") <= due("Good")
           /\ due("Good") <= due("Easy")

\* a record produced by a call, in Review, for which the four due dates are
\* strictly increasing
C18_Witness ==
    /\ Called
    /\ card.state = "Review"
    /\ LET due(r) == schedule(card, r, now).newCard.dueDate
       IN /\ due("Again") < due("Hard")
          /\ due("Hard") < due("Good")
          /\ due("Good") < due("Easy")

\* C19: two records that start in an acquisition-like phase differing only in
\* interval and are rated together agree on state, stepIndex, easeFactor and
\* dueDate after every call, and on interval once they are in Review.
C19_IntervalNotRead ==
    /\ card.state = twin.state
    /\ card.stepIndex = twin.stepIndex
    /\ card.easeFactor = twin.easeFactor
    /\ card.dueDate = twin.dueDate
    /\ card.id = twin.id
    /\ card.state = "Review" => card.interval = twin.interval

\* a relapsed card and its twin, still differing in interval after a Good
\* that moved both one step up the ladder to the same due date
C19_Witness ==
    /\ rating = "Good"
    /\ old.state = "Relearning"
    /\ card.state = "Learning"
    /\ twin.interval # card.interval
    /\ twin.dueDate = card.dueDate
    /\ card.dueDate = now + 10

\* C20: every Review record reachable from a new record has interval >= 1,
\* a rating that keeps a card in Review never shortens its interval, and so
\* processReview's repair of loaded records leaves every such record as it is.
C20_ReviewIntervalPositive ==
    /\ card.state = "Review" => card.interval >= 1
    /\ (Called /\ old.state = "Review" /\ card.state = "Review")
           => card.interval >= old.interval
    /\ ReclassifyLoaded(card) = card

\* Hard on the shortest Review interval: floor(1 * 1.2) is still 1
C20_Witness ==
    /\ rating = "Hard"
    /\ old.state = "Review"
    /\ old.interval = 1
    /\ card.state = "Review"
    /\ card.interval = 1
\* A file is under a folder when its path is the folder's, a separator and more
IsUnder(path, folder) ==
    /\ Len(path) > Len(folder) + 1
    /\ \A i \in 1..Len(folder) : path[i] = folder[i]
    /\ path[Len(folder) + 1] = "/"

\* The rating a State value stands for by the rule of C21: the value itself,
\* or the first element of a list, read without regard to case
ExpectedRating(st) ==
    CASE st \in {WordAgain, WordFail} -> "Again"
      [] st = WordHard -> "Hard"
      [] st \in {WordGood, WordMedium} -> "Good"
      [] st \in {WordEasy, ListEasyThenX} -> "Easy"
      [] OTHER -> "None"

\* C21: a change of a note's metadata asks for a review exactly when the note
\* is under the target folder and its State (the first element of a list),
\* read without regard to case, is again or fail (Again), hard (Hard), good or
\* medium (Good) or easy (Easy); otherwise it asks for nothing.
C21_ReviewOnlyUnderTargetFolder ==
    LET lc == plugin.lastChange
    IN lc.origin # "none" =>
           lc.rating = (IF IsUnder(PathChars(lc.file), targetFolder)
                        THEN ExpectedRating(lc.state)
                        ELSE "None")

\* C22: a rating is applied exactly once. Every review the user asked for is
\* either waiting or has made one schedule call; the State that processReview
\* writes back is a phase name, and neither that write nor startReviewSession's
\* write of Learning asks for a review.
C22_RatingAppliedOnce ==
    /\ plugin.calls + Len(plugin.tasks) = plugin.requested
    /\ plugin.lastChange.origin \in {"writeback", "session"}
           => plugin.lastChange.rating = "None"
    /\ plugin.lastChange.origin = "writeback"
           => plugin.lastChange.state \in {Str(PhaseChars(st)) : st \in CardState}

\* the user typed a rating into State, the one review it asked for has run
\* and its write-back has been seen by the handler
C22_Witness ==
    /\ plugin.lastChange.origin = "writeback"
    /\ plugin.requested = 1
    /\ plugin.calls = 1
    /\ plugin.tasks = <<>>
    /\ plugin.edits = 1
    /\ rating = "Good"
    /\ vault[card.id].State = Str(PhaseChars(card.state))
\* C23: after renderList the queue holds exactly the files under the target
\* folder that have a due date and pass the filter (due by the end of today
\* when no day is selected, due on the selected day otherwise), each once, in
\* ascending order of due date.
C23_QueueIsDueFilesUnderTarget ==
    view.rendered =>
        LET q == view.currentQueue
            due(f) == vault[f].due
            passes(f) ==
                /\ vault[f].present
                /\ due(f) # NoValue
                /\ due(f) # Undefined
                /\ IF view.selectedDate = NoValue
                   THEN due(f) <= (view.now \div 1440) * 1440 + 1439
                   ELSE due(f) \div 1440 = view.selectedDate
        IN /\ {q[i] : i \in 1..Len(q)}
                  = {f \in Files : IsUnder(PathChars(f), targetFolder) /\ passes(f)}
           /\ \A i, j \in 1..Len(q) : i < j => (q[i] # q[j] /\ due(q[i]) <= due(q[j]))

\* C24: in the rendered list at most the first item is enabled; while a day
\* other than today is selected no item is enabled; otherwise the first item
\* is enabled, so the branch that disables a waiting top card is never taken,
\* and every later item is disabled.
C24_OnlyFirstItemEnabled ==
    view.rendered =>
        LET enabled == {i \in 1..Len(view.items) : ~view.items[i].isDisabled}
            preview == view.selectedDate # NoValue /\ view.selectedDate # view.now \div 1440
        IN /\ enabled \subseteq {1}
           /\ preview => enabled = {}
           /\ (~preview /\ Len(view.items) > 0) => enabled = {1}
           /\ \A i \in 1..Len(view.items) : view.items[i].branch # "top-blocked"
           /\ Len(view.items) = Len(view.currentQueue)

\* a list of several cards none of which is due yet: the top card is unlocked
C24_Witness ==
    /\ view.rendered
    /\ Len(view.items) >= 2
    /\ view.items[1].branch = "top-unlocked"
    /\ ~view.items[1].isDisabled
    /\ view.items[2].isDisabled
    /\ vault[view.items[1].file].due > view.now
====
